---------------------------- MODULE Spec2Model ----------------------------
(***************************************************************************)
(* Model of the /predict and /train handlers of backend/app/routes/        *)
(* predict.py together with the process-wide model mapping that            *)
(* backend/app/main.py builds at startup.                                  *)
(*                                                                         *)
(* Units.  Raw prices (provider values, model outputs) are integers in     *)
(* thousandths of a currency unit; the prices of a response, which the     *)
(* code rounds to two decimals, are integers in hundredths.  Dates are     *)
(* triples <<year, month, day>>.  The clock is a date plus a flag that     *)
(* says whether the time of day is past midnight.                          *)
(***************************************************************************)
EXTENDS Integers, Sequences, FiniteSets, TLC

----------------------------------------------------------------------------
(* Bounds of the model *)

NumTasks == 2
MaxRuns == 2
MaxTicks == 1
MaxYear == 2028

Tasks == 1..NumTasks
MonthChoices == {0, 2, 4, 13}
DayChoices == {0, 1, 2, 29, 31}
Tickers == {<<"TCS">>, <<"INFY", "NS">>}
ProviderPrices == {-1000, 0, 1234, 100000}
RowCounts == {0, 1, 5}
StartDate == <<2026, 2, 2>>
Years == StartDate[1]..MaxYear

----------------------------------------------------------------------------
(* Calendar arithmetic of the standard library, as the handlers use it *)

MINYEAR == 1
MAXYEAR == 9999

isleap(y) == y % 4 = 0 /\ (y % 100 # 0 \/ y % 400 = 0)

mdays(m) ==
  CASE m = 2 -> 28
    [] m \in {4, 6, 9, 11} -> 30
    [] OTHER -> 31

\* calendar.monthrange(year, month)[1] with February never lengthened
monthrangeNoLeap(y, m) == mdays(m)

\* calendar.monthrange(year, month)[1], for 1 <= month <= 12
monthrange(y, m) == mdays(m) + (IF m = 2 /\ isleap(y) THEN 1 ELSE 0)

RECURSIVE DaysBeforeMonth(_, _)
DaysBeforeMonth(y, m) ==
  IF m <= 1 THEN 0 ELSE DaysBeforeMonth(y, m - 1) + monthrange(y, m - 1)

\* datetime.toordinal(): 1 is 1 January of year 1
Ordinal(dt) ==
  LET y == dt[1] - 1 IN
    365 * y + (y \div 4) - (y \div 100) + (y \div 400)
      + DaysBeforeMonth(dt[1], dt[2]) + dt[3]

\* datetime.weekday(): Monday is 0
Weekday(dt) == (Ordinal(dt) + 6) % 7

\* datetime(year, month, day) raises ValueError outside these ranges
DatetimeOK(y, m, d) ==
  /\ y >= MINYEAR /\ y <= MAXYEAR
  /\ m >= 1 /\ m <= 12
  /\ d >= 1 /\ d <= monthrange(y, m)

NextDay(dt) ==
  IF dt[3] < monthrange(dt[1], dt[2]) THEN <<dt[1], dt[2], dt[3] + 1>>
  ELSE IF dt[2] < 12 THEN <<dt[1], dt[2] + 1, 1>>
  ELSE <<dt[1] + 1, 1, 1>>

\* (target_date - now).days: target_date is a midnight, the difference is
\* floored to whole days
DaysBetween(target, nw) == Ordinal(target) - Ordinal(nw.date) - nw.late

----------------------------------------------------------------------------
(* Arithmetic *)

Max(a, b) == IF a >= b THEN a ELSE b

\* int(x) of a quotient: truncation towards zero
IntTrunc(n, d) == IF n >= 0 THEN n \div d ELSE -((-n) \div d)

\* round(): the quotient n/d (d > 0) to the nearest integer, ties to even
RoundDiv(n, d) ==
  LET q == n \div d
      r == n % d
  IN  IF 2 * r < d THEN q
      ELSE IF 2 * r > d THEN q + 1
      ELSE IF q % 2 = 0 THEN q ELSE q + 1

\* round(x, 2) of a raw price in thousandths, result in hundredths
Round2(x) == RoundDiv(x, 10)

\* n/d > b, without forming b*d
FracGT(n, d, b) ==
  LET q == n \div d
      r == n % d
  IN  q > b \/ (q = b /\ r > 0)

\* 1.05 ** k for whole k, scaled by 10^5
RECURSIVE WholeYears(_)
WholeYears(k) == IF k <= 0 THEN 100000 ELSE RoundDiv(WholeYears(k - 1) * 105, 100)

\* 1.05 ** (r/365) for 0 <= r < 365, scaled by 10^8 (binomial series)
PartYear(r) ==
  100000000 + ((5000000 * r) \div 365) + ((5000 * r * (r - 365)) \div 5329)
    + ((50 * r * (r - 365) * (r - 730)) \div 1167051)

\* (1 + growth_rate) ** (days / 365) for days >= 0, scaled by 10^4: the
\* floating-point power carried to four decimals
GrowthFactor(days) ==
  RoundDiv(WholeYears(days \div 365) * RoundDiv(PartYear(days % 365), 10000), 100000)

----------------------------------------------------------------------------
(* Values *)

None == [has |-> FALSE, v |-> 0]
Some(x) == [has |-> TRUE, v |-> x]

\* A fitted regressor: the training run that produced it (0: loaded at
\* startup), the function it computes, and the number of rows it was fitted on
NoModel == [run |-> -1, kind |-> "none", n_fit |-> 0]
Model(run, kind, n) == [run |-> run, kind |-> kind, n_fit |-> n]

\* A checkpoint {last_day_index}: run is the training run that wrote it
NoMeta == [run |-> -1, last_day_index |-> 0]
Meta(run, ldi) == [run |-> run, last_day_index |-> ldi]

\* What fitting can produce
TrainKinds == {"const"}

\* What the models directory can hold at startup: per ticker a model file
\* and, optionally, its checkpoint file
Absent == [model |-> NoModel, meta |-> NoMeta]
Entry(kind, withMeta) ==
  [model |-> Model(0, kind, 4), meta |-> IF withMeta THEN Meta(0, 5) ELSE NoMeta]
StartupDirs ==
  { [t \in Tickers |-> Absent],
    [t \in Tickers |-> IF t = <<"TCS">> THEN Entry("const", FALSE) ELSE Entry("neg", TRUE)],
    [t \in Tickers |-> IF t = <<"TCS">> THEN Entry("raises", TRUE) ELSE Entry("feat", TRUE)] }

NoResp == [status |-> 0, predictedPrice |-> 0, currentPrice |-> 0, confidence |-> 0]
Failure(code) == [status |-> code, predictedPrice |-> 0, currentPrice |-> 0, confidence |-> 0]
Result(pp, cp, conf) ==
  [status |-> 200, predictedPrice |-> pp, currentPrice |-> cp, confidence |-> conf]

NoFeat == <<>>
NoDf == [raises |-> FALSE, empty |-> TRUE, hasClose |-> FALSE, rows |-> 0]

----------------------------------------------------------------------------
(* The prediction-resolution policy of predict_price *)

\* fetch_ticker = ticker if ticker.endswith('.NS') else ticker + '.NS'
fetch_ticker(t) == IF t[Len(t)] = "NS" THEN t ELSE Append(t, "NS")

\* days_from_now left negative for a past date
ClampDaysNoClamp(raw) == raw

\* days_from_now = (target_date - now).days, clamped to 0
ClampDays(raw) == IF raw < 0 THEN 0 ELSE raw

\* future_trading_days = int(days_from_now * 252 / 365)
FutureTradingDays(days_from_now) == IntTrunc(days_from_now * 252, 365)

\* A predicted price before rounding: the fraction n/d, in thousandths
Exact(p) == [n |-> p, d |-> 1]

\* current_price * (1 + growth_rate) ** years_ahead, with
\* years_ahead = max(0, (target_date - now).days / 365)
GrowthPrice(cur, raw) == [n |-> cur * GrowthFactor(Max(0, raw)), d |-> 10000]

\* round(predicted_price, 2), in hundredths
RoundPrice(pred) == RoundDiv(pred.n, pred.d * 10)

\* the plausibility guard with the upper bound itself rejected
ImplausibleAtBound(pred, cur) ==
  pred.n <= 0 \/ FracGT(pred.n, pred.d, cur * 10) \/ (pred.d = 1 /\ pred.n = cur * 10)

\* predicted_price <= 0 or predicted_price > current_price * 10
Implausible(pred, cur) == pred.n <= 0 \/ FracGT(pred.n, pred.d, cur * 10)

\* feat = [[future_index, day_sq, weekday, month_feat, day_of_month]]
Features(meta, target, future_trading_days) ==
  LET future_index == meta.last_day_index + future_trading_days IN
    <<future_index, future_index * future_index, Weekday(target), target[2], target[3]>>

\* model.predict(feat)[0] raises for a regressor fitted on another schema
PredictRaises(model) == model.kind = "raises"

\* float(model.predict(feat)[0]): the regressor is opaque, these are the
\* functions of the feature vector the model considers
ModelPredict(model, feat) ==
  CASE model.kind = "const" -> 12340
    [] model.kind = "neg" -> -1234
    [] OTHER -> 10 * feat[1] + (feat[2] % 7) + 100 * feat[3] + 10 * feat[4] + feat[5]

ConfidenceNoModel == 75
ConfidenceModel == 90
ConfidenceFallback == 70

\* the no-model branch with the linear formula of the last-resort handler
NoModelResultLinear(cur, raw) ==
  Result(RoundDiv(cur * (7300 + Max(0, raw)), 73000), Round2(cur), ConfidenceNoModel)

\* the branch taken when ticker is not in models
NoModelResult(cur, raw) ==
  Result(RoundPrice(GrowthPrice(cur, raw)), Round2(cur), ConfidenceNoModel)

\* the rest of the try block once model = models[ticker] is bound: the
\* checkpoint lookup, the model call, the plausibility guard and the response
InferResult(model, meta, cur, target, raw) ==
  LET ftd == FutureTradingDays(ClampDays(raw))
      useModel == meta # NoMeta
      feat == IF useModel THEN Features(meta, target, ftd) ELSE NoFeat
      raises == useModel /\ PredictRaises(model)
      first == IF useModel /\ ~raises THEN Exact(ModelPredict(model, feat))
               ELSE GrowthPrice(cur, raw)
      final == IF Implausible(first, cur) THEN GrowthPrice(cur, raw) ELSE first
  IN  [ invoked |-> useModel,
        feat |-> feat,
        raises |-> raises,
        rawPred |-> IF useModel /\ ~raises THEN Some(first.n) ELSE None,
        replaced |-> Implausible(first, cur),
        resp |-> Result(RoundPrice(final), Round2(cur), ConfidenceModel) ]

\* predicted_price = current_price * (1 + 0.05 * future_days / 365), with
\* future_days = max(0, (datetime(year, month, day) - datetime.now()).days)
LastResortPrice(cur, raw) == [n |-> cur * (7300 + Max(0, raw)), d |-> 7300]

\* the last-resort response computed with the growth formula instead
LastResortResultGrowth(cur, raw) ==
  Result(RoundPrice(GrowthPrice(cur, raw)), Round2(cur), ConfidenceFallback)

LastResortResult(cur, raw) ==
  Result(RoundPrice(LastResortPrice(cur, raw)), Round2(cur), ConfidenceFallback)

----------------------------------------------------------------------------
(* State *)

VARIABLES
  models,       \* app.state.models: ticker -> model
  model_meta,   \* app.state.model_meta: ticker -> checkpoint
  model_files,  \* models/<ticker>.pkl
  meta_files,   \* models/<ticker>_meta.json
  runs,         \* number of fits done by /train since startup
  now,          \* datetime.now()
  ticks,        \* how often the clock has advanced
  loop,         \* the task running on the event loop, 0 if none
  req           \* per task: the handler it runs, its position and its locals

vars == <<models, model_meta, model_files, meta_files, runs, now, ticks, loop, req>>

Store == [models |-> models, model_meta |-> model_meta,
          model_files |-> model_files, meta_files |-> meta_files]

Idle ==
  [ kind |-> "none", pc |-> "idle", ticker |-> <<>>, date |-> <<>>,
    now |-> [date |-> <<>>, late |-> 0], raw |-> 0,
    log |-> <<>>, cur |-> None,
    model |-> NoModel, meta |-> NoMeta, readModels |-> FALSE,
    invoked |-> FALSE, feat |-> NoFeat, rawPred |-> None, replaced |-> FALSE,
    fault |-> FALSE, fblog |-> <<>>, raw2 |-> 0,
    df |-> NoDf, newmeta |-> NoMeta, snap |-> <<>>,
    resp |-> NoResp ]

\* The positions at which a handler awaits, that is, gives up the event
\* loop: predict_price and train_single_ticker are coroutines whose bodies
\* contain no await, every provider and file call in them is a blocking call
AwaitPointsTorn == {"set_meta"}

AwaitPoints == {}

Runnable(i, pc) ==
  /\ req[i].pc = pc
  /\ loop = i \/ (loop = 0 /\ pc \in AwaitPoints)

Goto(i, r) ==
  /\ req' = [req EXCEPT ![i] = r]
  /\ loop' = IF r.pc \in AwaitPoints THEN 0 ELSE i

Init ==
  /\ \E dir \in StartupDirs :
       /\ models = [t \in Tickers |-> dir[t].model]
       /\ model_meta = [t \in Tickers |-> dir[t].meta]
       /\ model_files = [t \in Tickers |-> dir[t].model]
       /\ meta_files = [t \in Tickers |-> dir[t].meta]
  /\ runs = 0
  /\ now = [date |-> StartDate, late |-> 0]
  /\ ticks = 0
  /\ loop = 0
  /\ req = [i \in Tasks |-> Idle]

\* Time passes, also while a handler is blocked in a call
Tick ==
  /\ ticks < MaxTicks
  /\ ticks' = ticks + 1
  /\ now' = IF now.late = 0 THEN [now EXCEPT !.late = 1]
            ELSE [date |-> NextDay(now.date), late |-> 0]
  /\ UNCHANGED <<models, model_meta, model_files, meta_files, runs, loop, req>>

----------------------------------------------------------------------------
(* GET /predict *)

\* the three checks that raise HTTPException(400)
InvalidDate(y, m, d) ==
  \/ m < 1 \/ m > 12
  \/ d < 1 \/ d > monthrange(y, m)
  \/ ~DatetimeOK(y, m, d)

\* the request is accepted and validated, now is read and the day counts
\* are derived
PredictStart(i) ==
  /\ loop = 0 /\ req[i].pc = "idle"
  /\ \E t \in Tickers, y \in Years, m \in MonthChoices, d \in DayChoices :
       LET r0 == [Idle EXCEPT !.kind = "predict", !.ticker = t, !.date = <<y, m, d>>] IN
         IF InvalidDate(y, m, d)
           THEN Goto(i, [r0 EXCEPT !.pc = "done", !.resp = Failure(400)])
           ELSE Goto(i, [r0 EXCEPT !.pc = "fast_info", !.now = now,
                                    !.raw = DaysBetween(<<y, m, d>>, now)])
  /\ UNCHANGED <<models, model_meta, model_files, meta_files, runs, now, ticks>>

Call(r, s, t, o) ==
  [r EXCEPT !.log = Append(@, [s |-> s, t |-> t, o |-> o])]

Priced(r, v) == [r EXCEPT !.cur = Some(v), !.pc = "lookup"]

\* strategy 1: float(yf.Ticker(fetch_ticker).fast_info.last_price)
FastInfo(i) ==
  /\ Runnable(i, "fast_info")
  /\ LET r == req[i]
         ft == fetch_ticker(r.ticker)
     IN  \/ \E v \in ProviderPrices : Goto(i, Priced(Call(r, 1, ft, "ok"), v))
         \/ Goto(i, [Call(r, 1, ft, "attr_err") EXCEPT !.pc = "history_5d"])
         \/ Goto(i, [Call(r, 1, ft, "err") EXCEPT !.pc = "download"])
  /\ UNCHANGED <<models, model_meta, model_files, meta_files, runs, now, ticks>>

\* strategy 2: stock.history(period="5d"), reached on AttributeError or
\* KeyError only; an empty frame raises ValueError
History5d(i) ==
  /\ Runnable(i, "history_5d")
  /\ LET r == req[i]
         ft == fetch_ticker(r.ticker)
     IN  \/ \E v \in ProviderPrices : Goto(i, Priced(Call(r, 2, ft, "ok"), v))
         \/ \E o \in {"empty", "err"} : Goto(i, [Call(r, 2, ft, o) EXCEPT !.pc = "download"])
  /\ UNCHANGED <<models, model_meta, model_files, meta_files, runs, now, ticks>>

\* strategy 3: yf.download(fetch_ticker, period="5d")
Download(i) ==
  /\ Runnable(i, "download")
  /\ LET r == req[i]
         ft == fetch_ticker(r.ticker)
     IN  \/ \E v \in ProviderPrices : Goto(i, Priced(Call(r, 3, ft, "ok"), v))
         \/ Goto(i, [Call(r, 3, ft, "empty") EXCEPT !.pc = "download_plain"])
         \/ Goto(i, [Call(r, 3, ft, "err") EXCEPT !.pc = "history_1mo"])
  /\ UNCHANGED <<models, model_meta, model_files, meta_files, runs, now, ticks>>

\* strategy 4: yf.download(ticker, period="5d"), reached when strategy 3
\* returned an empty frame; an empty frame raises ValueError
DownloadPlain(i) ==
  /\ Runnable(i, "download_plain")
  /\ LET r == req[i] IN
         \/ \E v \in ProviderPrices : Goto(i, Priced(Call(r, 4, r.ticker, "ok"), v))
         \/ \E o \in {"empty", "err"} :
              Goto(i, [Call(r, 4, r.ticker, o) EXCEPT !.pc = "history_1mo"])
  /\ UNCHANGED <<models, model_meta, model_files, meta_files, runs, now, ticks>>

\* strategy 5: yf.Ticker(fetch_ticker).history(period="1mo"); an empty
\* frame or an exception leaves current_price None
History1mo(i) ==
  /\ Runnable(i, "history_1mo")
  /\ LET r == req[i]
         ft == fetch_ticker(r.ticker)
     IN  \/ \E v \in ProviderPrices : Goto(i, Priced(Call(r, 5, ft, "ok"), v))
         \/ \E o \in {"empty", "err"} : Goto(i, [Call(r, 5, ft, o) EXCEPT !.pc = "lookup"])
  /\ UNCHANGED <<models, model_meta, model_files, meta_files, runs, now, ticks>>

\* current_price is checked, the model mapping is read and, when the ticker
\* has no model, the growth-formula response is returned
Lookup(i) ==
  /\ Runnable(i, "lookup")
  /\ LET r == req[i] IN
       IF ~r.cur.has
         THEN Goto(i, [r EXCEPT !.pc = "done", !.resp = Failure(503)])
       ELSE IF models[r.ticker] = NoModel
         THEN Goto(i, [r EXCEPT !.pc = "done", !.readModels = TRUE, !.log = <<>>,
                                !.resp = NoModelResult(r.cur.v, r.raw)])
       ELSE Goto(i, [r EXCEPT !.pc = "infer", !.readModels = TRUE, !.log = <<>>,
                              !.model = models[r.ticker]])
  /\ UNCHANGED <<models, model_meta, model_files, meta_files, runs, now, ticks>>

\* the checkpoint is read, the model is run and its output is validated; an
\* exception of the model call passes control to the last-resort handler
Infer(i) ==
  /\ Runnable(i, "infer")
  /\ LET r == req[i]
         meta == model_meta[r.ticker]
         res == InferResult(r.model, meta, r.cur.v, r.date, r.raw)
         r1 == [r EXCEPT !.meta = meta, !.invoked = res.invoked, !.feat = res.feat]
     IN  IF res.raises
           THEN Goto(i, [r1 EXCEPT !.pc = "last_resort", !.fault = TRUE])
           ELSE Goto(i, [r1 EXCEPT !.pc = "done", !.rawPred = res.rawPred,
                                   !.replaced = res.replaced, !.resp = res.resp])
  /\ UNCHANGED <<models, model_meta, model_files, meta_files, runs, now, ticks>>

Fetched(r, s, t, o) == [r EXCEPT !.fblog = Append(@, [s |-> s, t |-> t, o |-> o])]

\* the response of the last-resort handler once it has a price: now is read
\* again
LastResortDone(r, v) ==
  LET raw2 == DaysBetween(r.date, now) IN
    [r EXCEPT !.pc = "done", !.cur = Some(v), !.raw2 = raw2,
              !.resp = LastResortResult(v, raw2)]

LastResortFailed(r) == [r EXCEPT !.pc = "done", !.cur = None, !.resp = Failure(503)]

\* except Exception: yf.download(fetch_ticker, period="5d")
LastResort(i) ==
  /\ Runnable(i, "last_resort")
  /\ LET r == req[i]
         ft == fetch_ticker(r.ticker)
     IN  \/ \E v \in ProviderPrices : Goto(i, LastResortDone(Fetched(r, 1, ft, "ok"), v))
         \/ Goto(i, [Fetched(r, 1, ft, "empty") EXCEPT !.pc = "last_resort_plain"])
         \/ Goto(i, LastResortFailed(Fetched(r, 1, ft, "err")))
  /\ UNCHANGED <<models, model_meta, model_files, meta_files, runs, now, ticks>>

\* if data.empty: yf.download(ticker, period="5d")
LastResortPlain(i) ==
  /\ Runnable(i, "last_resort_plain")
  /\ LET r == req[i] IN
         \/ \E v \in ProviderPrices : Goto(i, LastResortDone(Fetched(r, 2, r.ticker, "ok"), v))
         \/ \E o \in {"empty", "err"} : Goto(i, LastResortFailed(Fetched(r, 2, r.ticker, o)))
  /\ UNCHANGED <<models, model_meta, model_files, meta_files, runs, now, ticks>>

----------------------------------------------------------------------------
(* POST /train *)

\* df.empty or 'Close' not in df.columns, with "and" in place of "or"
NoHistoricalDataBoth(df) == df.empty /\ ~df.hasClose

\* df.empty or 'Close' not in df.columns
NoHistoricalData(df) == df.empty \/ ~df.hasClose

\* split_idx = int(len(X) * 0.8)
SplitIdx(n) == (n * 8) \div 10

\* last_day_index taken from the last row of the training split
LastDayIndexOfSplit(n) == SplitIdx(n)

\* meta['last_day_index'] = int(X['day_index'].iloc[-1]): the day_index of
\* the last row of the whole frame
LastDayIndex(n) == n

\* what yf.download(ticker, period="5y") can return: a frame, possibly empty
\* or without a Close column, with so many rows left after dropna()
Frames ==
  { [raises |-> FALSE, empty |-> TRUE, hasClose |-> c, rows |-> 0] : c \in BOOLEAN }
    \cup { [raises |-> FALSE, empty |-> FALSE, hasClose |-> FALSE, rows |-> 0] }
    \cup { [raises |-> FALSE, empty |-> FALSE, hasClose |-> TRUE, rows |-> n] : n \in RowCounts }
    \cup { [raises |-> TRUE, empty |-> TRUE, hasClose |-> FALSE, rows |-> 0] }

\* the history is downloaded and checked, the features are built and the
\* regressor is fitted on the first split_idx rows (fit raises on no rows)
TrainStart(i) ==
  /\ loop = 0 /\ req[i].pc = "idle"
  /\ runs < MaxRuns
  /\ \E t \in Tickers, df \in Frames :
       LET r0 == [Idle EXCEPT !.kind = "train", !.ticker = t, !.df = df, !.snap = Store] IN
         IF df.raises
           THEN /\ Goto(i, [r0 EXCEPT !.pc = "done", !.resp = Failure(500)])
                /\ runs' = runs
         ELSE IF NoHistoricalData(df)
           THEN /\ Goto(i, [r0 EXCEPT !.pc = "done", !.resp = Failure(404)])
                /\ runs' = runs
         ELSE IF SplitIdx(df.rows) = 0
           THEN /\ Goto(i, [r0 EXCEPT !.pc = "done", !.resp = Failure(500)])
                /\ runs' = runs
         ELSE /\ \E k \in TrainKinds :
                   Goto(i, [r0 EXCEPT !.pc = "dump_model",
                                      !.model = Model(runs + 1, k, SplitIdx(df.rows)),
                                      !.newmeta = Meta(runs + 1, LastDayIndex(df.rows))])
              /\ runs' = runs + 1
  /\ UNCHANGED <<models, model_meta, model_files, meta_files, now, ticks>>

\* joblib.dump(model, str(model_file))
DumpModel(i) ==
  /\ Runnable(i, "dump_model")
  /\ model_files' = [model_files EXCEPT ![req[i].ticker] = req[i].model]
  /\ Goto(i, [req[i] EXCEPT !.pc = "dump_meta"])
  /\ UNCHANGED <<models, model_meta, meta_files, runs, now, ticks>>

\* json.dump(meta, mf)
DumpMeta(i) ==
  /\ Runnable(i, "dump_meta")
  /\ meta_files' = [meta_files EXCEPT ![req[i].ticker] = req[i].newmeta]
  /\ Goto(i, [req[i] EXCEPT !.pc = "set_model"])
  /\ UNCHANGED <<models, model_meta, model_files, runs, now, ticks>>

\* request.app.state.models[ticker] = model
SetModel(i) ==
  /\ Runnable(i, "set_model")
  /\ models' = [models EXCEPT ![req[i].ticker] = req[i].model]
  /\ Goto(i, [req[i] EXCEPT !.pc = "set_meta"])
  /\ UNCHANGED <<model_meta, model_files, meta_files, runs, now, ticks>>

\* request.app.state.model_meta[ticker] = meta, then the 'ok' response
SetMeta(i) ==
  /\ Runnable(i, "set_meta")
  /\ model_meta' = [model_meta EXCEPT ![req[i].ticker] = req[i].newmeta]
  /\ Goto(i, [req[i] EXCEPT !.pc = "done", !.resp = Failure(200)])
  /\ UNCHANGED <<models, model_files, meta_files, runs, now, ticks>>

----------------------------------------------------------------------------

\* the handler returns or raises: the response leaves and the task ends
Respond(i) ==
  /\ Runnable(i, "done")
  /\ req' = [req EXCEPT ![i] = Idle]
  /\ loop' = 0
  /\ UNCHANGED <<models, model_meta, model_files, meta_files, runs, now, ticks>>

Next ==
  \/ Tick
  \/ \E i \in Tasks : PredictStart(i)
  \/ \E i \in Tasks : FastInfo(i)
  \/ \E i \in Tasks : History5d(i)
  \/ \E i \in Tasks : Download(i)
  \/ \E i \in Tasks : DownloadPlain(i)
  \/ \E i \in Tasks : History1mo(i)
  \/ \E i \in Tasks : Lookup(i)
  \/ \E i \in Tasks : Infer(i)
  \/ \E i \in Tasks : LastResort(i)
  \/ \E i \in Tasks : LastResortPlain(i)
  \/ \E i \in Tasks : TrainStart(i)
  \/ \E i \in Tasks : DumpModel(i)
  \/ \E i \in Tasks : DumpMeta(i)
  \/ \E i \in Tasks : SetModel(i)
  \/ \E i \in Tasks : SetMeta(i)
  \/ \E i \in Tasks : Respond(i)

Spec == Init /\ [][Next]_vars

----------------------------------------------------------------------------
(* Properties *)

PredictDone(i) == req[i].kind = "predict" /\ req[i].pc = "done"
Answered(i) == PredictDone(i) /\ req[i].resp.status = 200
TrainDone(i) == req[i].kind = "train" /\ req[i].pc = "done"

\* the growth-formula price currentPrice x 1.05^years_ahead, to 2 decimals
GrowthFormula(cur, raw) == RoundDiv(cur * GrowthFactor(IF raw > 0 THEN raw ELSE 0), 100000)

\* C1: a response computed from a positive current price for a ticker that
\* has a model whose output p is p <= 0 or p > currentPrice x 10, or that has
\* a model but no checkpoint, carries the growth-formula price and
\* confidence 75
C1_FallbackReports75 ==
  \A i \in Tasks :
    (/\ Answered(i) /\ ~req[i].fault /\ req[i].model # NoModel
     /\ req[i].cur.v > 0
     /\ \/ req[i].meta = NoMeta
        \/ /\ req[i].rawPred.has
           /\ req[i].rawPred.v <= 0 \/ req[i].rawPred.v > req[i].cur.v * 10)
    => /\ req[i].resp.predictedPrice = GrowthFormula(req[i].cur.v, req[i].raw)
       /\ req[i].resp.confidence = 75

\* C2: whenever /predict runs a model, the model and the checkpoint it read
\* come from the same training run
C2_PairNeverTorn ==
  \A i \in Tasks :
    (req[i].kind = "predict" /\ req[i].invoked) => req[i].model.run = req[i].meta.run

C2_Witness ==
  \E i \in Tasks :
    /\ PredictDone(i) /\ req[i].invoked
    /\ req[i].model.run >= 1 /\ runs >= 2

\* C3: a response for a ticker without an entry in the model mapping has
\* confidence 75 and the growth-formula price (the current price itself when
\* the date is not in the future, 110.25 for 100 two years ahead) and no
\* model was run
C3_NoModelGrowth ==
  \A i \in Tasks :
    (Answered(i) /\ ~req[i].fault /\ models[req[i].ticker] = NoModel)
    => /\ req[i].resp.confidence = 75
       /\ req[i].resp.predictedPrice = GrowthFormula(req[i].cur.v, req[i].raw)
       /\ req[i].raw <= 0 => req[i].resp.predictedPrice = req[i].resp.currentPrice
       /\ (req[i].cur.v = 100000 /\ req[i].raw = 730) => req[i].resp.predictedPrice = 11025
       /\ ~req[i].invoked

C3_Witness ==
  \E i \in Tasks :
    /\ Answered(i) /\ models[req[i].ticker] = NoModel
    /\ req[i].cur.v = 100000 /\ req[i].raw = 730
    /\ req[i].resp.predictedPrice = 11025 /\ req[i].resp.confidence = 75

\* C4: when model and checkpoint are present and the model's output p has
\* 0 < p <= currentPrice x 10, the response carries p rounded to 2 decimals
\* and confidence 90
C4_PlausibleOutputUsed ==
  \A i \in Tasks :
    (/\ Answered(i) /\ req[i].model # NoModel /\ req[i].meta # NoMeta
     /\ req[i].rawPred.has
     /\ 0 < req[i].rawPred.v /\ req[i].rawPred.v <= req[i].cur.v * 10)
    => /\ req[i].resp.predictedPrice = Round2(req[i].rawPred.v)
       /\ req[i].resp.confidence = 90

C4_Witness ==
  \E i \in Tasks :
    /\ Answered(i) /\ req[i].rawPred.has /\ req[i].cur.v > 0
    /\ req[i].rawPred.v = req[i].cur.v * 10
    /\ req[i].resp.predictedPrice = Round2(req[i].rawPred.v)

Attempted(lg, k) == \E n \in 1..Len(lg) : lg[n].s = k
Failed(lg, k) == \E n \in 1..Len(lg) : lg[n].s = k /\ lg[n].o # "ok"

\* C5: once price sourcing is over, strategy k was attempted if and only if
\* every strategy before it failed, the strategies ran in the order 1..5,
\* the price is that of the one that succeeded, and without a success the
\* request ends in 503
C5_ChainInOrder ==
  \A i \in Tasks :
    (req[i].kind = "predict" /\ req[i].pc = "lookup")
    => LET lg == req[i].log IN
         /\ \A k \in 1..5 : Attempted(lg, k) <=> (\A j \in 1..(k - 1) : Failed(lg, j))
         /\ \A n \in 1..(Len(lg) - 1) : lg[n].s < lg[n + 1].s
         /\ req[i].cur.has <=> lg[Len(lg)].o = "ok"

\* C6: after an unexpected fault the handler makes one more fetch (download
\* of the suffixed ticker, then of the plain one); with a price the response
\* has confidence 70 and price current x (1 + 0.05 x max(0, days)/365),
\* without one the request fails; 400 and 503 raised before are never
\* turned into a confidence-70 response
C6_LastResort ==
  \A i \in Tasks :
    PredictDone(i) =>
      LET r == req[i]
          fb == r.fblog
      IN  /\ r.fault =>
               /\ Len(fb) \in {1, 2}
               /\ fb[1].s = 1 /\ fb[1].t = fetch_ticker(r.ticker)
               /\ Len(fb) = 2 => (fb[1].o = "empty" /\ fb[2].s = 2 /\ fb[2].t = r.ticker)
               /\ IF fb[Len(fb)].o = "ok"
                    THEN /\ r.resp.status = 200 /\ r.resp.confidence = 70
                         /\ r.resp.predictedPrice =
                              RoundDiv(r.cur.v * (7300 + (IF r.raw2 > 0 THEN r.raw2 ELSE 0)), 73000)
                    ELSE r.resp.status >= 400
          /\ ~r.fault => (fb = <<>> /\ r.resp.confidence # 70)

C6_Witness ==
  \E i \in Tasks :
    /\ PredictDone(i) /\ req[i].fault /\ req[i].resp.confidence = 70
    /\ req[i].raw2 > 0 /\ req[i].cur.v > 0

TodayResult(r) ==
  LET rawT == DaysBetween(r.now.date, r.now) IN
    IF r.model = NoModel THEN NoModelResult(r.cur.v, rawT)
    ELSE InferResult(r.model, r.meta, r.cur.v, r.now.date, rawT).resp

PastDate(r) == Ordinal(r.date) < Ordinal(r.now.date)

\* C7 as stated: a response for a date strictly in the past equals the
\* response the same state gives for today's date, on every path
C7_PastEqualsToday ==
  \A i \in Tasks :
    (Answered(i) /\ ~req[i].fault /\ PastDate(req[i])) => req[i].resp = TodayResult(req[i])

\* C7 amended: for a past date the response equals today's when no model is
\* run (no model, or no checkpoint); when the model is run, future_index and
\* day_sq are those of a request for today (the checkpoint's last_day_index
\* and its square) while weekday, month and day are the target date's
C7_PastClampsDays ==
  \A i \in Tasks :
    (Answered(i) /\ ~req[i].fault /\ PastDate(req[i])) =>
      LET r == req[i] IN
        /\ ~r.invoked => r.resp = TodayResult(r)
        /\ r.invoked =>
             /\ r.feat[1] = r.meta.last_day_index
             /\ r.feat[2] = r.meta.last_day_index * r.meta.last_day_index
             /\ r.feat[3] = Weekday(r.date) /\ r.feat[4] = r.date[2] /\ r.feat[5] = r.date[3]

C7_Witness ==
  \E i \in Tasks :
    /\ Answered(i) /\ PastDate(req[i]) /\ req[i].invoked /\ req[i].now.late = 1
    /\ req[i].resp # TodayResult(req[i])

\* C8: every response of /predict carries a strictly positive current price
C8_PricePositive ==
  \A i \in Tasks : Answered(i) => (req[i].cur.v > 0 /\ req[i].resp.currentPrice > 0)

CalendarDays(y, m) ==
  IF m \in {1, 3, 5, 7, 8, 10, 12} THEN 31
  ELSE IF m \in {4, 6, 9, 11} THEN 30
  ELSE IF (y % 400 = 0) \/ (y % 4 = 0 /\ y % 100 # 0) THEN 29 ELSE 28

CalendarValid(dt) ==
  /\ dt[2] \in 1..12
  /\ dt[3] >= 1 /\ dt[3] <= CalendarDays(dt[1], dt[2])

\* C9: a request whose (year, month, day) is no calendar date ends in 400
\* with no provider call made and the model mapping not read; a request
\* with a calendar date never ends in 400
C9_DateValidation ==
  \A i \in Tasks :
    req[i].kind = "predict" =>
      IF CalendarValid(req[i].date)
        THEN req[i].resp.status # 400
        ELSE /\ req[i].pc = "done" /\ req[i].resp.status = 400
             /\ req[i].log = <<>> /\ req[i].fblog = <<>> /\ ~req[i].readModels

C9_Witness ==
  \E i \in Tasks :
    /\ PredictDone(i) /\ req[i].date = <<StartDate[1] + 1, 2, 29>>
    /\ req[i].resp.status = 400

\* C10: /train on an empty history, or one without close prices, ends in
\* 404 and leaves both files and both in-memory mappings as they were
C10_EmptyHistoryNoEffect ==
  \A i \in Tasks :
    (req[i].kind = "train" /\ ~req[i].df.raises
       /\ (req[i].df.empty \/ ~req[i].df.hasClose))
    => /\ req[i].pc = "done" /\ req[i].resp.status = 404
       /\ Store = req[i].snap

C10_Witness ==
  \E i \in Tasks :
    /\ TrainDone(i) /\ req[i].df.empty /\ req[i].resp.status = 404
    /\ models[req[i].ticker] # NoModel /\ runs >= 1

Trained(i) == TrainDone(i) /\ req[i].resp.status = 200

\* floor(0.8 x N), the size of the chronological training split
FitRows(n) == n - ((2 * n + 9) \div 10)

=============================================================================
